---- MODULE Spec2Model ----
(***************************************************************************)
(* A model of the automation-API Stack (sdk/nodejs/x/automation/stack.ts). *)
(*                                                                         *)
(* The Stack binds a name to a Workspace, establishes the stack in one of  *)
(* three modes, and runs lifecycle commands through the command execution  *)
(* endpoint.  The Workspace and the endpoint are collaborators outside the *)
(* file: their requests are modelled as steps that complete with either    *)
(* outcome.                                                                *)
(*                                                                         *)
(* An optional JavaScript value (x?: T) is a sequence of length at most    *)
(* one: << >> is undefined, <<v>> is the value v.                          *)
(***************************************************************************)
EXTENDS Integers, Sequences, FiniteSets, TLC

VARIABLES
    arg,      \* the argument of the function under evaluation
    ret,      \* its return value: << >> until it has returned
    active,   \* Workspace: the currently selected stack ("" when none)
    program,  \* Workspace: whether getProgram() yields a program
    stacks,   \* the Stack objects, by identity
    calls,    \* the calls of Stack's public operations, by identity
    config,   \* Workspace: the config of each stack name, and the last request
    lang      \* a Run of the test language runtime

vars == <<arg, ret, active, program, stacks, calls, config, lang>>

(***************************************************************************)
(* Bounds of the model.                                                    *)
(***************************************************************************)
MaxHistory == 3     \* update records in one history reply
MaxStacks == 2      \* Stack objects built on the one Workspace
MaxCalls == 1       \* calls of public operations on them, one caller
MaxConcurrent == 2  \* calls of lifecycle operations in flight together

(***************************************************************************)
(* JavaScript values.                                                      *)
(***************************************************************************)
Undefined == << >>
Some(v) == <<v>>
IsUndefined(x) == Len(x) = 0
Get(x) == x[1]

\* A JSON value as [type, text]: text is what String(value) gives.
Str(s) == [type |-> "string", text |-> s]
Num(s) == [type |-> "number", text |-> s]
Arr(s) == [type |-> "array", text |-> s]
JsUndefined == [type |-> "undefined", text |-> "undefined"]
\* what a property of Object.prototype reads as on a plain object:
\* __proto__ is Object.prototype itself, constructor is Object, every other
\* one is the native function of that name
JsInherited(key) ==
    CASE key = "__proto__" -> [type |-> "object", text |-> "[object Object]"]
      [] key = "constructor" ->
            [type |-> "function", text |-> "function Object() { [native code] }"]
      [] OTHER ->
            [type |-> "function",
             text |-> "function " \o key \o "() { [native code] }"]

EmptyObject == [k \in {} |-> JsUndefined]

\* the properties every plain object inherits from Object.prototype
ObjectPrototypeKeys ==
    {"__defineGetter__", "__defineSetter__", "__lookupGetter__",
     "__lookupSetter__", "__proto__", "constructor", "hasOwnProperty",
     "isPrototypeOf", "propertyIsEnumerable", "toLocaleString", "toString",
     "valueOf"}

\* obj[key]: an own property, else the inherited one, else undefined
JsGetProperty(obj, key) ==
    IF key \in DOMAIN obj THEN obj[key]
    ELSE IF key \in ObjectPrototypeKeys THEN JsInherited(key)
    ELSE JsUndefined

\* obj[key] = v on a plain object, v an object: "__proto__" is the accessor
\* of Object.prototype, so the assignment replaces the prototype and adds no
\* own property; every other key becomes an own property.
JsSetProperty(obj, key, v) ==
    IF key = "__proto__" THEN obj
    ELSE [k \in (DOMAIN obj) \cup {key} |-> IF k = key THEN v ELSE obj[k]]

\* v === s for a string s
StrictEqualsString(v, s) == v.type = "string" /\ v.text = s

(***************************************************************************)
(* Stack.outputs: reconciliation of the masked and the plaintext view.     *)
(***************************************************************************)
secretSentinal == "[secret]"

RECURSIVE ReconcileLoop(_, _, _, _)
ReconcileLoop(keys, plaintextOuts, maskedOuts, outputs) ==
    IF keys = {} THEN outputs
    ELSE LET key == CHOOSE k \in keys : TRUE
             value == plaintextOuts[key]
             secret == StrictEqualsString(JsGetProperty(maskedOuts, key),
                                          secretSentinal)
         IN ReconcileLoop(keys \ {key}, plaintextOuts, maskedOuts,
                JsSetProperty(outputs, key,
                              [value |-> value, secret |-> secret]))

EmptyOutputMap == [k \in {} |-> [value |-> JsUndefined, secret |-> FALSE]]

Reconcile(plaintextOuts, maskedOuts) ==
    ReconcileLoop(DOMAIN plaintextOuts, plaintextOuts, maskedOuts,
                  EmptyOutputMap)

(***************************************************************************)
(* JSON.parse of a command's stdout.  A document is malformed text, the    *)
(* literal null, an array of update records or an object.                  *)
(***************************************************************************)
Malformed == [kind |-> "malformed", items |-> << >>, obj |-> EmptyObject]
NullDoc == [kind |-> "null", items |-> << >>, obj |-> EmptyObject]
ArrayDoc(items) == [kind |-> "array", items |-> items, obj |-> EmptyObject]
ObjectDoc(obj) == [kind |-> "object", items |-> << >>, obj |-> obj]

JSONparseThrows(stdout) == stdout.kind = "malformed"

SyntaxError == "SyntaxError: Unexpected token in JSON"
TypeError == "TypeError: Cannot convert undefined or null to object"

\* The body of outputs() after both commands have completed: the two parses,
\* then the loop over Object.entries(plaintextOuts).
OutputsThrew(e) == [threw |-> TRUE, error |-> e, outputs |-> EmptyOutputMap]
OutputsOf(maskedStdout, plaintextStdout) ==
    IF JSONparseThrows(maskedStdout) \/ JSONparseThrows(plaintextStdout)
    THEN OutputsThrew(SyntaxError)
    ELSE IF plaintextStdout.kind = "null" THEN OutputsThrew(TypeError)
    ELSE IF maskedStdout.kind = "null" /\ DOMAIN plaintextStdout.obj # {}
    THEN OutputsThrew(TypeError)
    ELSE [threw |-> FALSE, error |-> "",
          outputs |-> Reconcile(plaintextStdout.obj, maskedStdout.obj)]

(***************************************************************************)
(* Stack.history and Stack.info on the reply of the history command.       *)
(***************************************************************************)
HistoryThrew(e) == [threw |-> TRUE, error |-> e, summaries |-> NullDoc]
HistorySorted(stdout) ==
    IF JSONparseThrows(stdout) THEN HistoryThrew(SyntaxError)
    ELSE [threw |-> FALSE, error |-> "",
          summaries |-> [stdout EXCEPT !.items =
              [i \in 1..Len(stdout.items) |->
                  stdout.items[Len(stdout.items) + 1 - i]]]]
\* history() after its command has completed: the parsed reply as it is
HistoryOf(stdout) ==
    IF JSONparseThrows(stdout) THEN HistoryThrew(SyntaxError)
    ELSE [threw |-> FALSE, error |-> "", summaries |-> stdout]

\* info() on what history() returned
InfoOf(history) ==
    IF history.kind = "null" \/ Len(history.items) = 0 THEN Undefined
    ELSE Some(history.items[1])

\* info() after the history command has completed
InfoAfter(stdout) ==
    LET history == HistoryOf(stdout) IN
    IF history.threw
    THEN [threw |-> TRUE, error |-> history.error, summary |-> Undefined]
    ELSE [threw |-> FALSE, error |-> "", summary |-> InfoOf(history.summaries)]

(***************************************************************************)
(* Translation of the options of up, preview, refresh and destroy into     *)
(* command line arguments.  A condition if (x) holds when x is truthy:     *)
(* a string other than "", a number other than 0, the boolean true, any    *)
(* array.                                                                  *)
(***************************************************************************)
TruthyString(x) == ~IsUndefined(x) /\ Get(x) # ""
TruthyNumber(x) == ~IsUndefined(x) /\ Get(x) # 0
TruthyBoolean(x) == ~IsUndefined(x) /\ Get(x)
TruthyArray(x) == ~IsUndefined(x)
TruthyFunction(x) == ~IsUndefined(x)

Digit(d) ==
    CASE d = 0 -> "0" [] d = 1 -> "1" [] d = 2 -> "2" [] d = 3 -> "3"
      [] d = 4 -> "4" [] d = 5 -> "5" [] d = 6 -> "6" [] d = 7 -> "7"
      [] d = 8 -> "8" [] d = 9 -> "9"

\* Number.prototype.toString of an integer
RECURSIVE NumberToString(_)
NumberToString(n) ==
    IF n < 0 THEN "-" \o NumberToString(-n)
    ELSE IF n < 10 THEN Digit(n)
    ELSE NumberToString(n \div 10) \o Digit(n % 10)

\* for (const u of list) args.push(flag, u)
RECURSIVE PushEach(_, _, _)
PushEach(args, flag, list) ==
    IF Len(list) = 0 THEN args
    ELSE PushEach(args \o <<flag, Head(list)>>, flag, Tail(list))

PushMessage(args, o) ==
    IF TruthyString(o.message) THEN args \o <<"--message", Get(o.message)>>
    ELSE args
PushExpectNoChanges(args, o) ==
    IF TruthyBoolean(o.expectNoChanges) THEN args \o <<"--expect-no-changes">>
    ELSE args
PushReplace(args, o) ==
    IF TruthyArray(o.replace) THEN PushEach(args, "--replace", Get(o.replace))
    ELSE args
PushTarget(args, o) ==
    IF TruthyArray(o.target) THEN PushEach(args, "--target", Get(o.target))
    ELSE args
PushTargetDependents(args, o) ==
    IF TruthyBoolean(o.targetDependents) THEN args \o <<"--target-dependents">>
    ELSE args
PushParallel(args, o) ==
    IF TruthyNumber(o.parallel)
    THEN args \o <<"--parallel", NumberToString(Get(o.parallel))>>
    ELSE args

\* the options block of up and of preview; opts is << >> when the call has none
UpOptionArgs(base, opts) ==
    IF IsUndefined(opts) THEN base
    ELSE LET o == Get(opts) IN
         PushParallel(PushTargetDependents(PushTarget(PushReplace(
             PushExpectNoChanges(PushMessage(base, o), o), o), o), o), o)
PreviewOptionArgs(base, opts) ==
    IF IsUndefined(opts) THEN base
    ELSE LET o == Get(opts) IN
         PushParallel(PushTargetDependents(PushTarget(PushReplace(
             PushExpectNoChanges(PushMessage(base, o), o), o), o), o), o)
RefreshOptionArgs(base, opts) ==
    IF IsUndefined(opts) THEN base
    ELSE LET o == Get(opts) IN
         PushParallel(PushTarget(PushExpectNoChanges(PushMessage(base, o), o), o), o)
DestroyOptionArgs(base, opts) ==
    IF IsUndefined(opts) THEN base
    ELSE LET o == Get(opts) IN
         PushParallel(PushTargetDependents(PushTarget(PushMessage(base, o), o), o), o)

execKindLocal == "auto.local"
execKindInline == "auto.inline"

NYI == "NYI: inline programs"

\* program = workspace.getProgram(); if (opts && opts.program) program = opts.program
ProgramOfWorkspaceOnly(opts, wsProgram) == wsProgram
ProgramOf(opts, wsProgram) ==
    wsProgram \/ (~IsUndefined(opts) /\ TruthyFunction(Get(opts).program))

\* The synchronous part of an operation between its stack selection and its
\* call of runPulumiCmd: either it throws, or it yields the argument list.
Thrown(e) == [threw |-> TRUE, error |-> e, args |-> << >>]
Built(args) == [threw |-> FALSE, error |-> "", args |-> args]

UpCommandInlineKind(opts, wsProgram) ==
    LET args == UpOptionArgs(<<"up", "--yes", "--skip-preview">>, opts) IN
    IF ProgramOf(opts, wsProgram) THEN Thrown(NYI)
    ELSE Built(args \o <<"--exec-kind", execKindInline>>)
UpCommand(opts, wsProgram) ==
    LET args == UpOptionArgs(<<"up", "--yes", "--skip-preview">>, opts) IN
    IF ProgramOf(opts, wsProgram) THEN Thrown(NYI)
    ELSE Built(args \o <<"--exec-kind", execKindLocal>>)
PreviewCommand(opts, wsProgram) ==
    LET args == PreviewOptionArgs(<<"preview">>, opts) IN
    IF ProgramOf(opts, wsProgram) THEN Thrown(NYI)
    ELSE Built(args \o <<"--exec-kind", execKindLocal>>)
RefreshCommandWithKind(opts) ==
    Built(RefreshOptionArgs(<<"refresh", "--yes", "--skip-preview">>, opts)
          \o <<"--exec-kind", execKindLocal>>)
RefreshCommand(opts) ==
    Built(RefreshOptionArgs(<<"refresh", "--yes", "--skip-preview">>, opts))
DestroyCommand(opts) ==
    Built(DestroyOptionArgs(<<"destroy", "--yes", "--skip-preview">>, opts))

LifecycleOps == {"up", "preview", "refresh", "destroy"}

Command(op, opts, wsProgram) ==
    CASE op = "up" -> UpCommand(opts, wsProgram)
      [] op = "preview" -> PreviewCommand(opts, wsProgram)
      [] op = "refresh" -> RefreshCommand(opts)
      [] op = "destroy" -> DestroyCommand(opts)

\* runPulumiCmd: args = [...args, ...additionalArgs]
EndpointArgs(args, additionalArgs) == args \o additionalArgs

HistoryArgs == <<"history", "--json", "--show-secrets">>
MaskedOutputArgs == <<"stack", "output", "--json">>
PlaintextOutputArgs == <<"stack", "output", "--json", "--show-secrets">>

(***************************************************************************)
(* The state before any Stack is built, and the idle records.              *)
(***************************************************************************)
StackIds == 1..MaxStacks
CallIds == 1..MaxConcurrent
Tasks == {"main", "hist", "masked", "plain"}

NoStack == [name |-> "", mode |-> "", factory |-> "none", ready |-> "none",
            reqs |-> << >>, error |-> ""]

IdleTask == [pc |-> "idle", args |-> << >>, at |-> "", execs |-> 0, hooks |-> 0,
             hookFor |-> ""]

NoResult == [summary |-> Undefined, outputs |-> Undefined, history |-> Undefined]

NoCall == [stack |-> 0, op |-> "", opts |-> Undefined, state |-> "idle",
           error |-> "", sel |-> "idle", osel |-> "idle",
           cmd |-> [t \in Tasks |-> IdleTask],
           stdout |-> [t \in Tasks |-> NullDoc],
           info |-> Undefined, outs |-> Undefined, result |-> NoResult]

NoStacks == [s \in StackIds |-> NoStack]
NoCalls == [c \in CallIds |-> NoCall]

\* the Workspace's config: no key is set under any stack name
ConfigKeys == {"k1", "k2"}
ConfigValues == {"v", "w"}
Absent == "(absent)"
NoRequest == [stack |-> 0, op |-> "", name |-> "", keys |-> {},
              values |-> [k \in ConfigKeys |-> Absent],
              result |-> [k \in ConfigKeys |-> Absent]]
NoConfig == [store |-> [n \in {"A", "B"} |-> [k \in ConfigKeys |-> Absent]],
             last |-> NoRequest]

\* no Run of the language runtime has been requested
NoRun == [pc |-> "idle", address |-> "", secrets |-> FALSE, program |-> "",
          dial |-> "", go |-> "none", runs |-> 0, progerr |-> << >>,
          result |-> "", err |-> << >>]

Idle ==
    /\ active = ""
    /\ program = FALSE
    /\ stacks = NoStacks
    /\ calls = NoCalls
    /\ config = NoConfig
    /\ lang = NoRun

protocolVars == <<active, program, stacks, calls, config, lang>>

(***************************************************************************)
(* Evaluation of outputs(), history() and info() on the replies of the     *)
(* engine, and of the argument list of a lifecycle operation, over         *)
(* bounded sets of inputs.                                                 *)
(***************************************************************************)
OutputKeys == {"a", "toString", "valueOf", "__proto__"}
OutputValues == {Str("[secret]"), Str("x"), Num("1"), Arr("[secret]")}
JsonObjects == UNION {[D -> OutputValues] : D \in SUBSET OutputKeys}
OutputReplies == {ObjectDoc(o) : o \in JsonObjects} \cup {Malformed, NullDoc}

Summaries == [version : 1..3]
RECURSIVE SeqsUpTo(_, _)
SeqsUpTo(S, n) ==
    IF n = 0 THEN {<< >>}
    ELSE LET shorter == SeqsUpTo(S, n - 1) IN
         shorter \cup {Append(q, x) : q \in {r \in shorter : Len(r) = n - 1}, x \in S}
HistoryReplies ==
    {ArrayDoc(q) : q \in SeqsUpTo(Summaries, MaxHistory)} \cup {Malformed, NullDoc}

Options ==
    [program : {Undefined, Some("fn")},
     message : {Undefined, Some(""), Some("m")},
     expectNoChanges : {Undefined, Some(FALSE), Some(TRUE)},
     replace : {Undefined, Some(<< >>), Some(<<"urn:r", "urn:a">>)},
     target : {Undefined, Some(<<"urn:a">>), Some(<<"urn:a", "urn:b">>),
               Some(<<"urn:b", "urn:a">>)},
     targetDependents : {Undefined, Some(FALSE), Some(TRUE)},
     parallel : {Undefined, Some(0), Some(1), Some(12)}]
OptionValues == {Undefined} \cup {Some(o) : o \in Options}
\* what Workspace.serializeArgsForOp may contribute
AdditionalArgs == {<< >>, <<"--config-file", "ws.yaml">>}

InitOutputs ==
    /\ arg \in [fn : {"outputs"}, maskedStdout : OutputReplies,
                plaintextStdout : OutputReplies]
    /\ ret = Undefined
    /\ Idle

OutputsReturn ==
    /\ arg.fn = "outputs"
    /\ IsUndefined(ret)
    /\ ret' = Some(OutputsOf(arg.maskedStdout, arg.plaintextStdout))
    /\ UNCHANGED <<arg, protocolVars>>

SpecOutputs == InitOutputs /\ [][OutputsReturn]_vars

InitHistory ==
    /\ arg \in [fn : {"history", "info"}, stdout : HistoryReplies]
    /\ ret = Undefined
    /\ Idle

HistoryReturn ==
    /\ arg.fn = "history"
    /\ IsUndefined(ret)
    /\ ret' = Some(HistoryOf(arg.stdout))
    /\ UNCHANGED <<arg, protocolVars>>

InfoReturn ==
    /\ arg.fn = "info"
    /\ IsUndefined(ret)
    /\ ret' = Some(InfoAfter(arg.stdout))
    /\ UNCHANGED <<arg, protocolVars>>

SpecHistory == InitHistory /\ [][HistoryReturn \/ InfoReturn]_vars

InitArgs ==
    /\ arg \in [fn : LifecycleOps, opts : OptionValues, wsProgram : BOOLEAN,
                additionalArgs : AdditionalArgs]
    /\ ret = Undefined
    /\ Idle

\* the argument list an operation hands to the endpoint, unless it throws
CommandReturn ==
    /\ arg.fn \in LifecycleOps
    /\ IsUndefined(ret)
    /\ LET c == Command(arg.fn, arg.opts, arg.wsProgram) IN
       ret' = Some(IF c.threw THEN c
                   ELSE Built(EndpointArgs(c.args, arg.additionalArgs)))
    /\ UNCHANGED <<arg, protocolVars>>

SpecArgs == InitArgs /\ [][CommandReturn]_vars

(***************************************************************************)
(* The Workspace.  Its requests complete with either outcome; a completed  *)
(* createStack or selectStack makes the stack the Workspace's active one.  *)
(***************************************************************************)
Names == {"A", "B"}
CreateErrors == {"create: stack already exists", "create: permission denied"}
SelectErrors == {"select: no stack named"}
WorkspaceError == "workspace: request failed"
CommandError == "command failed"

WorkspaceActiveAfter(name) == name
WorkspaceAdditionalArgs(name) == <<"--config-file", "Pulumi." \o name \o ".yaml">>

(***************************************************************************)
(* Stack construction: the constructor and the Create, Select and Upsert   *)
(* factories.                                                              *)
(***************************************************************************)
Modes == {"create", "select", "upsert", "bogus"}
FactoryModes == {"create", "select", "upsert"}

UnexpectedMode(mode) == "unexpected Stack creation mode: " \o mode

\* the constructor's switch: the Workspace request it issues, or a throw
ConstructorRequest(mode) ==
    CASE mode = "create" -> "create"
      [] mode = "select" -> "select"
      [] mode = "upsert" -> "create"
      [] OTHER -> "throw"

\* what follows a rejected createStack: upsert's catch handler issues
\* selectStack, whatever the error; create mode has no handler
OnCreateRejectedAlwaysSelects(mode, e) == "select"
OnCreateRejectedConflictOnly(mode, e) ==
    IF mode = "upsert" /\ e = "create: stack already exists" THEN "select"
    ELSE "reject"
OnCreateRejected(mode, e) == IF mode = "upsert" THEN "select" ELSE "reject"

Request(req, name) == [req |-> req, name |-> name, outcome |-> "pending"]

Last(q) == q[Len(q)]
Pending(s, req) ==
    /\ stacks[s].ready = "pending"
    /\ Last(stacks[s].reqs).req = req
    /\ Last(stacks[s].reqs).outcome = "pending"

\* new Stack(name, workspace, mode), directly or inside a factory
Construct(s, name, mode, factory) ==
    /\ stacks[s].ready = "none"
    /\ \A t \in StackIds : t < s => stacks[t].ready # "none"
    /\ factory => mode \in FactoryModes
    /\ LET first == ConstructorRequest(mode) IN
       stacks' = [stacks EXCEPT ![s] =
          IF first = "throw"
          THEN [name |-> name, mode |-> mode, factory |-> "none",
                ready |-> "threw", reqs |-> << >>,
                error |-> UnexpectedMode(mode)]
          ELSE [name |-> name, mode |-> mode,
                factory |-> IF factory THEN "awaiting" ELSE "none",
                ready |-> "pending", reqs |-> <<Request(first, name)>>,
                error |-> ""]]
    /\ UNCHANGED <<config, lang, arg, ret, active, program, calls>>

\* workspace.createStack(name) completes
CreateStackDone(s, outcome) ==
    /\ Pending(s, "create")
    /\ LET st == stacks[s]
           n == Len(st.reqs)
           done == [st EXCEPT !.reqs[n].outcome = outcome]
       IN IF outcome = "ok"
          THEN /\ active' = WorkspaceActiveAfter(st.name)
               /\ stacks' = [stacks EXCEPT ![s] = [done EXCEPT !.ready = "resolved"]]
          ELSE /\ active' = active
               /\ stacks' = [stacks EXCEPT ![s] =
                     IF OnCreateRejected(st.mode, outcome) = "select"
                     THEN [done EXCEPT !.reqs = Append(@, Request("select", st.name))]
                     ELSE [done EXCEPT !.ready = "rejected", !.error = outcome]]
    /\ UNCHANGED <<config, lang, arg, ret, program, calls>>

\* workspace.selectStack(name), issued by the constructor, completes
SelectStackDone(s, outcome) ==
    /\ Pending(s, "select")
    /\ LET st == stacks[s]
           n == Len(st.reqs)
           done == [st EXCEPT !.reqs[n].outcome = outcome]
       IN IF outcome = "ok"
          THEN /\ active' = WorkspaceActiveAfter(st.name)
               /\ stacks' = [stacks EXCEPT ![s] = [done EXCEPT !.ready = "resolved"]]
          ELSE /\ active' = active
               /\ stacks' = [stacks EXCEPT ![s] =
                     [done EXCEPT !.ready = "rejected", !.error = outcome]]
    /\ UNCHANGED <<config, lang, arg, ret, program, calls>>

\* await stack.ready in a factory: it returns the Stack, or rejects
FactoryReturn(s) ==
    /\ stacks[s].factory = "awaiting"
    /\ stacks[s].ready \in {"resolved", "rejected"}
    /\ stacks' = [stacks EXCEPT ![s].factory =
          IF stacks[s].ready = "resolved" THEN "returned" ELSE "rejected"]
    /\ UNCHANGED <<config, lang, arg, ret, active, program, calls>>

\* the caller holds the Stack object
Handed(s) ==
    \/ stacks[s].factory = "none" /\ stacks[s].ready \in {"pending", "resolved", "rejected"}
    \/ stacks[s].factory = "returned"

(***************************************************************************)
(* Calls of the public operations.  A call advances from one await to the  *)
(* next; each runPulumiCmd it makes is a task of its own: "main" for the   *)
(* lifecycle command, "hist" for history(), "masked" and "plain" for the   *)
(* two commands of outputs().                                              *)
(***************************************************************************)
Ops == LifecycleOps \cup {"outputs", "history", "info"}

DefaultOptions ==
    [program |-> Undefined, message |-> Undefined, expectNoChanges |-> Undefined,
     replace |-> Undefined, target |-> Undefined, targetDependents |-> Undefined,
     parallel |-> Undefined]
\* the options the calls of the model are made with
CallOptions(op) ==
    IF op \in {"up", "preview"}
    THEN {Undefined,
          Some([DefaultOptions EXCEPT !.program = Some("fn")]),
          Some([DefaultOptions EXCEPT !.target = Some(<<"urn:a", "urn:b">>)])}
    ELSE IF op \in LifecycleOps
    THEN {Undefined,
          Some([DefaultOptions EXCEPT !.target = Some(<<"urn:a", "urn:b">>)])}
    ELSE {Undefined}

\* the replies of the engine the calls of the model see
CommandText == Malformed
MaskedSample == [k \in {"a", "b"} |-> IF k = "a" THEN Str("[secret]") ELSE Str("x")]
PlaintextSample == [k \in {"a", "b"} |-> IF k = "a" THEN Str("pw") ELSE Str("x")]
CommandReplies(t) ==
    CASE t = "main" -> {CommandText}
      [] t = "hist" -> {Malformed, ArrayDoc(<< >>),
                        ArrayDoc(<<[version |-> 2], [version |-> 1]>>)}
      [] t = "masked" -> {ObjectDoc(MaskedSample)}
      [] t = "plain" -> {ObjectDoc(PlaintextSample), Malformed}

Reject(k, e) ==
    IF k.state = "running" THEN [k EXCEPT !.state = "rejected", !.error = e] ELSE k
Resolve(k, result) ==
    IF k.state = "running" THEN [k EXCEPT !.state = "resolved", !.result = result] ELSE k

\* runPulumiCmd up to its first await, ws.getEnvVars()
StartTask(k, t, args) ==
    [k EXCEPT !.cmd[t] = [IdleTask EXCEPT !.pc = "envs", !.args = args]]

\* up: Promise.all([this.info(), this.outputs()]) once both have resolved
UpGather(k) ==
    IF ~IsUndefined(k.info) /\ ~IsUndefined(k.outs)
    THEN Resolve(k, [NoResult EXCEPT !.summary = Get(k.info), !.outputs = k.outs])
    ELSE k

\* the lifecycle command has completed: up starts info() and outputs(), which
\* run to their first awaits (getEnvVars of the history command, selectStack);
\* preview, refresh and destroy start info()
MainDone(k) ==
    IF k.op = "up"
    THEN [StartTask(k, "hist", HistoryArgs) EXCEPT !.osel = "pending"]
    ELSE StartTask(k, "hist", HistoryArgs)

\* the history command has completed: history() parses, info() takes the
\* first record, the operation builds its result
HistDone(k) ==
    LET h == HistoryOf(k.stdout["hist"])
        i == InfoAfter(k.stdout["hist"])
    IN IF k.op = "history"
       THEN IF h.threw THEN Reject(k, h.error)
            ELSE Resolve(k, [NoResult EXCEPT !.history = Some(h.summaries)])
       ELSE IF i.threw THEN Reject(k, i.error)
       ELSE LET k2 == [k EXCEPT !.info = Some(i.summary)] IN
            IF k.op = "up" THEN UpGather(k2)
            ELSE Resolve(k2, [NoResult EXCEPT !.summary = i.summary])

\* both commands of outputs() have completed
OutputsDone(k) ==
    LET o == OutputsOf(k.stdout["masked"], k.stdout["plain"]) IN
    IF o.threw THEN Reject(k, o.error)
    ELSE LET k2 == [k EXCEPT !.outs = Some(o.outputs)] IN
         IF k.op = "up" THEN UpGather(k2)
         ELSE Resolve(k2, [NoResult EXCEPT !.outputs = Some(o.outputs)])

\* what awaits a task's runPulumiCmd continues
TaskResolved(k, t) ==
    CASE t = "main" -> MainDone(k)
      [] t = "hist" -> HistDone(k)
      [] t \in {"masked", "plain"} ->
            IF k.cmd["masked"].pc = "ok" /\ k.cmd["plain"].pc = "ok"
            THEN OutputsDone(k) ELSE k

TaskFailedThenInfo(k, t, e) ==
    LET failed == Reject([k EXCEPT !.cmd[t].pc = "err"], e) IN
    IF t = "main" THEN StartTask(failed, "hist", HistoryArgs) ELSE failed
TaskFailed(k, t, e) == Reject([k EXCEPT !.cmd[t].pc = "err"], e)

\* up, preview, refresh, destroy after their selectStack: the operation
\* throws, or awaits runPulumiCmd and nothing else
AfterSelectStartsInfo(k, cmd) ==
    IF cmd.threw THEN Reject(k, cmd.error)
    ELSE StartTask(StartTask(k, "main", cmd.args), "hist", HistoryArgs)
AfterSelect(k, cmd) ==
    IF cmd.threw THEN Reject(k, cmd.error)
    ELSE StartTask(k, "main", cmd.args)

\* a public operation is called on a Stack the caller holds
StartCall(c, s, op, opts) ==
    /\ calls[c].state = "idle"
    /\ \A d \in CallIds : d < c => calls[d].state # "idle"
    /\ Handed(s)
    /\ op \in Ops
    /\ opts \in CallOptions(op)
    /\ LET k == [NoCall EXCEPT !.stack = s, !.op = op, !.opts = opts,
                               !.state = "running"]
       IN calls' = [calls EXCEPT ![c] =
             CASE op \in LifecycleOps -> [k EXCEPT !.sel = "pending"]
               [] op = "outputs" -> [k EXCEPT !.osel = "pending"]
               [] OTHER -> StartTask(k, "hist", HistoryArgs)]
    /\ UNCHANGED <<config, lang, arg, ret, active, program, stacks>>

\* the selectStack at the start of up, preview, refresh or destroy completes;
\* on success the operation builds its arguments and enters runPulumiCmd
SelectDone(c, outcome) ==
    /\ calls[c].sel = "pending"
    /\ LET k == calls[c]
           name == stacks[k.stack].name
           cmd == Command(k.op, k.opts, program)
       IN IF outcome = "ok"
          THEN /\ active' = WorkspaceActiveAfter(name)
               /\ calls' = [calls EXCEPT ![c] = AfterSelect([k EXCEPT !.sel = "ok"], cmd)]
          ELSE /\ active' = active
               /\ calls' = [calls EXCEPT ![c] = Reject([k EXCEPT !.sel = "err"], outcome)]
    /\ UNCHANGED <<config, lang, arg, ret, program, stacks>>

\* the selectStack of outputs() completes; on success both commands start
OutputsSelectDone(c, outcome) ==
    /\ calls[c].osel = "pending"
    /\ LET k == calls[c]
           name == stacks[k.stack].name
       IN IF outcome = "ok"
          THEN /\ active' = WorkspaceActiveAfter(name)
               /\ calls' = [calls EXCEPT ![c] =
                     StartTask(StartTask([k EXCEPT !.osel = "ok"],
                                         "masked", MaskedOutputArgs),
                               "plain", PlaintextOutputArgs)]
          ELSE /\ active' = active
               /\ calls' = [calls EXCEPT ![c] = Reject([k EXCEPT !.osel = "err"], outcome)]
    /\ UNCHANGED <<config, lang, arg, ret, program, stacks>>

\* runPulumiCmd: ws.getEnvVars() completes, serializeArgsForOp is issued
GetEnvVarsDone(c, t, ok) ==
    /\ calls[c].cmd[t].pc = "envs"
    /\ calls' = [calls EXCEPT ![c] =
          IF ok THEN [@ EXCEPT !.cmd[t].pc = "serialize"]
          ELSE TaskFailed(@, t, WorkspaceError)]
    /\ UNCHANGED <<config, lang, arg, ret, active, program, stacks>>

\* runPulumiCmd: ws.serializeArgsForOp(name) completes and the endpoint is
\* invoked with the arguments, against the Workspace's active stack
SerializeArgsDoneOwnStack(c, t, ok) ==
    /\ calls[c].cmd[t].pc = "serialize"
    /\ LET name == stacks[calls[c].stack].name IN
       calls' = [calls EXCEPT ![c] =
          IF ok THEN [@ EXCEPT !.cmd[t].pc = "exec",
                               !.cmd[t].args = EndpointArgs(@, WorkspaceAdditionalArgs(name)),
                               !.cmd[t].at = name,
                               !.cmd[t].execs = @ + 1]
          ELSE TaskFailed(@, t, WorkspaceError)]
    /\ UNCHANGED <<config, lang, arg, ret, active, program, stacks>>
SerializeArgsDone(c, t, ok) ==
    /\ calls[c].cmd[t].pc = "serialize"
    /\ LET name == stacks[calls[c].stack].name IN
       calls' = [calls EXCEPT ![c] =
          IF ok THEN [@ EXCEPT !.cmd[t].pc = "exec",
                               !.cmd[t].args = EndpointArgs(@, WorkspaceAdditionalArgs(name)),
                               !.cmd[t].at = active,
                               !.cmd[t].execs = @ + 1]
          ELSE TaskFailed(@, t, WorkspaceError)]
    /\ UNCHANGED <<config, lang, arg, ret, active, program, stacks>>

\* runPulumiCmd: the command completes and postCommandCallback is issued
CommandDone(c, t, stdout) ==
    /\ calls[c].cmd[t].pc = "exec"
    /\ stdout \in CommandReplies(t)
    /\ calls' = [calls EXCEPT ![c] =
          [@ EXCEPT !.cmd[t].pc = "hook", !.cmd[t].hooks = @ + 1,
                    !.cmd[t].hookFor = stacks[calls[c].stack].name,
                    !.stdout[t] = stdout]]
    /\ UNCHANGED <<config, lang, arg, ret, active, program, stacks>>

\* runPulumiCmd: the command fails, and runPulumiCmd with it
CommandFailedRunsHook(c, t) ==
    /\ calls[c].cmd[t].pc = "exec"
    /\ calls' = [calls EXCEPT ![c] =
          [TaskFailed(@, t, CommandError) EXCEPT !.cmd[t].hooks = @ + 1]]
    /\ UNCHANGED <<config, lang, arg, ret, active, program, stacks>>
CommandFailed(c, t) ==
    /\ calls[c].cmd[t].pc = "exec"
    /\ calls' = [calls EXCEPT ![c] = TaskFailed(@, t, CommandError)]
    /\ UNCHANGED <<config, lang, arg, ret, active, program, stacks>>

\* runPulumiCmd: ws.postCommandCallback(name) completes and the result is returned
PostCommandDone(c, t, ok) ==
    /\ calls[c].cmd[t].pc = "hook"
    /\ calls' = [calls EXCEPT ![c] =
          IF ok THEN TaskResolved([@ EXCEPT !.cmd[t].pc = "ok"], t)
          ELSE TaskFailed(@, t, WorkspaceError)]
    /\ UNCHANGED <<config, lang, arg, ret, active, program, stacks>>

(***************************************************************************)
(* The specifications.                                                     *)
(***************************************************************************)
Init ==
    /\ arg = [fn |-> "none"]
    /\ ret = Undefined
    /\ active = ""
    /\ program \in BOOLEAN
    /\ stacks = NoStacks
    /\ calls = NoCalls
    /\ config = NoConfig
    /\ lang = NoRun

Outcomes(errors) == {"ok"} \cup errors

\* Stack construction alone, in every mode, by constructor and by factory
NextConstruct ==
    \/ \E s \in StackIds, n \in Names, m \in Modes, f \in BOOLEAN : Construct(s, n, m, f)
    \/ \E s \in StackIds, o \in Outcomes(CreateErrors) : CreateStackDone(s, o)
    \/ \E s \in StackIds, o \in Outcomes(SelectErrors) : SelectStackDone(s, o)
    \/ \E s \in StackIds : FactoryReturn(s)

SpecConstruct == Init /\ [][NextConstruct]_vars

\* the steps of the calls in flight
Settle ==
    \/ \E c \in CallIds, o \in Outcomes(SelectErrors) : SelectDone(c, o)
    \/ \E c \in CallIds, o \in Outcomes(SelectErrors) : OutputsSelectDone(c, o)
    \/ \E c \in CallIds, t \in Tasks, ok \in BOOLEAN : GetEnvVarsDone(c, t, ok)
    \/ \E c \in CallIds, t \in Tasks, ok \in BOOLEAN : SerializeArgsDone(c, t, ok)
    \/ \E c \in CallIds, t \in Tasks : \E r \in CommandReplies(t) : CommandDone(c, t, r)
    \/ \E c \in CallIds, t \in Tasks : CommandFailed(c, t)
    \/ \E c \in CallIds, t \in Tasks, ok \in BOOLEAN : PostCommandDone(c, t, ok)

\* Stacks obtained from Stack.Select, and operations called on them, at any time
Next ==
    \/ \E s \in StackIds, n \in Names : Construct(s, n, "select", TRUE)
    \/ \E s \in StackIds, o \in Outcomes(SelectErrors) : SelectStackDone(s, o)
    \/ \E s \in StackIds : FactoryReturn(s)
    \/ \E c \in 1..MaxCalls, s \in StackIds, op \in Ops : \E o \in CallOptions(op) :
          StartCall(c, s, op, o)
    \/ Settle

Spec == Init /\ [][Next]_vars

\* a caller that awaits every construction and every operation before the next
NothingInFlight ==
    /\ \A s \in StackIds : stacks[s].ready # "pending" /\ stacks[s].factory # "awaiting"
    /\ \A c \in CallIds : calls[c].state # "running"

NextSerial ==
    \/ \E s \in StackIds, n \in Names : NothingInFlight /\ Construct(s, n, "select", TRUE)
    \/ \E s \in StackIds, o \in Outcomes(SelectErrors) : SelectStackDone(s, o)
    \/ \E s \in StackIds : FactoryReturn(s)
    \/ \E c \in 1..MaxCalls, s \in StackIds, op \in Ops : \E o \in CallOptions(op) :
          NothingInFlight /\ StartCall(c, s, op, o)
    \/ Settle

SpecSerial == Init /\ [][NextSerial]_vars

(***************************************************************************)
(* The config proxies.  Each forwards one request to the Workspace, keyed  *)
(* by the name the Stack was built with; none of them awaits anything else.*)
(* The Workspace keeps one map per stack name; a request is one step.      *)
(***************************************************************************)
ConfigMaps == [ConfigKeys -> ConfigValues \cup {Absent}]
NoMap == [k \in ConfigKeys |-> Absent]
KeysOf(map) == {k \in ConfigKeys : map[k] # Absent}

WorkspaceGetConfig(store, name, key) == [k \in ConfigKeys |->
    IF k = key THEN store[name][k] ELSE Absent]
WorkspaceGetAllConfig(store, name) == store[name]
WorkspaceSetConfig(store, name, key, value) == [store EXCEPT ![name][key] = value]
WorkspaceSetAllConfig(store, name, map) == [store EXCEPT ![name] =
    [k \in ConfigKeys |-> IF map[k] # Absent THEN map[k] ELSE @[k]]]
WorkspaceRemoveConfig(store, name, key) == [store EXCEPT ![name][key] = Absent]
WorkspaceRemoveAllConfig(store, name, keys) == [store EXCEPT ![name] =
    [k \in ConfigKeys |-> IF k \in keys THEN Absent ELSE @[k]]]
WorkspaceRefreshConfig(store, name) == store[name]

\* this.name, the first argument of every forwarded request
ForwardedNameFirstStack(st) == stacks[1].name
ForwardedName(st) == st.name

ConfigRequest(s, op, keys, values, result) ==
    [stack |-> s, op |-> op, name |-> ForwardedName(stacks[s]), keys |-> keys,
     values |-> values, result |-> result]

GetConfig(s, key) ==
    /\ Handed(s)
    /\ LET name == ForwardedName(stacks[s]) IN
       config' = [store |-> config.store,
                  last |-> ConfigRequest(s, "getConfig", {key}, NoMap,
                              WorkspaceGetConfig(config.store, name, key))]
    /\ UNCHANGED <<lang, arg, ret, active, program, stacks, calls>>

GetAllConfig(s) ==
    /\ Handed(s)
    /\ LET name == ForwardedName(stacks[s]) IN
       config' = [store |-> config.store,
                  last |-> ConfigRequest(s, "getAllConfig", {}, NoMap,
                              WorkspaceGetAllConfig(config.store, name))]
    /\ UNCHANGED <<lang, arg, ret, active, program, stacks, calls>>

SetConfig(s, key, value) ==
    /\ Handed(s)
    /\ LET name == ForwardedName(stacks[s]) IN
       config' = [store |-> WorkspaceSetConfig(config.store, name, key, value),
                  last |-> ConfigRequest(s, "setConfig", {key},
                              [NoMap EXCEPT ![key] = value], NoMap)]
    /\ UNCHANGED <<lang, arg, ret, active, program, stacks, calls>>

SetAllConfig(s, map) ==
    /\ Handed(s)
    /\ LET name == ForwardedName(stacks[s]) IN
       config' = [store |-> WorkspaceSetAllConfig(config.store, name, map),
                  last |-> ConfigRequest(s, "setAllConfig", KeysOf(map), map, NoMap)]
    /\ UNCHANGED <<lang, arg, ret, active, program, stacks, calls>>

RemoveConfig(s, key) ==
    /\ Handed(s)
    /\ LET name == ForwardedName(stacks[s]) IN
       config' = [store |-> WorkspaceRemoveConfig(config.store, name, key),
                  last |-> ConfigRequest(s, "removeConfig", {key}, NoMap, NoMap)]
    /\ UNCHANGED <<lang, arg, ret, active, program, stacks, calls>>

RemoveAllConfig(s, keys) ==
    /\ Handed(s)
    /\ LET name == ForwardedName(stacks[s]) IN
       config' = [store |-> WorkspaceRemoveAllConfig(config.store, name, keys),
                  last |-> ConfigRequest(s, "removeAllConfig", keys, NoMap, NoMap)]
    /\ UNCHANGED <<lang, arg, ret, active, program, stacks, calls>>

RefreshConfig(s) ==
    /\ Handed(s)
    /\ LET name == ForwardedName(stacks[s]) IN
       config' = [store |-> config.store,
                  last |-> ConfigRequest(s, "refreshConfig", {}, NoMap,
                              WorkspaceRefreshConfig(config.store, name))]
    /\ UNCHANGED <<lang, arg, ret, active, program, stacks, calls>>

\* Stacks obtained from Stack.Select, and config requests through them
NextConfig ==
    \/ \E s \in StackIds, n \in Names : Construct(s, n, "select", TRUE)
    \/ \E s \in StackIds : SelectStackDone(s, "ok")
    \/ \E s \in StackIds : FactoryReturn(s)
    \/ \E s \in StackIds, k \in ConfigKeys : GetConfig(s, k)
    \/ \E s \in StackIds : GetAllConfig(s)
    \/ \E s \in StackIds, k \in ConfigKeys, v \in ConfigValues : SetConfig(s, k, v)
    \/ \E s \in StackIds, m \in ConfigMaps : SetAllConfig(s, m)
    \/ \E s \in StackIds, k \in ConfigKeys : RemoveConfig(s, k)
    \/ \E s \in StackIds, ks \in SUBSET ConfigKeys : RemoveAllConfig(s, ks)
    \/ \E s \in StackIds : RefreshConfig(s)

SpecConfig == Init /\ [][NextConfig]_vars

\* one Stack built with new Stack(...), which hands the object over while its
\* ready promise is pending, and operations called on it at any time
NoStackBuilt == \A s \in StackIds : stacks[s].ready = "none"

NextDirect ==
    \/ \E s \in StackIds, n \in Names, m \in FactoryModes :
          NoStackBuilt /\ Construct(s, n, m, FALSE)
    \/ \E s \in StackIds, o \in Outcomes(CreateErrors) : CreateStackDone(s, o)
    \/ \E s \in StackIds, o \in Outcomes(SelectErrors) : SelectStackDone(s, o)
    \/ \E c \in 1..MaxCalls, s \in StackIds, op \in Ops : \E o \in CallOptions(op) :
          StartCall(c, s, op, o)
    \/ Settle

SpecDirect == Init /\ [][NextDirect]_vars

\* Stacks obtained from Stack.Select, and lifecycle operations called on
\* them without options, several in flight together, each followed until
\* the runPulumiCmd of its lifecycle command has returned
NextConcurrent ==
    \/ \E s \in StackIds, n \in Names : Construct(s, n, "select", TRUE)
    \/ \E s \in StackIds, o \in Outcomes(SelectErrors) : SelectStackDone(s, o)
    \/ \E s \in StackIds : FactoryReturn(s)
    \/ \E c \in CallIds, s \in StackIds, op \in LifecycleOps :
          StartCall(c, s, op, Undefined)
    \/ \E c \in CallIds, o \in Outcomes(SelectErrors) : SelectDone(c, o)
    \/ \E c \in CallIds, ok \in BOOLEAN : GetEnvVarsDone(c, "main", ok)
    \/ \E c \in CallIds, ok \in BOOLEAN : SerializeArgsDone(c, "main", ok)
    \/ \E c \in CallIds : CommandDone(c, "main", CommandText)
    \/ \E c \in CallIds : CommandFailed(c, "main")
    \/ \E c \in CallIds, ok \in BOOLEAN : PostCommandDone(c, "main", ok)

SpecConcurrent == Init /\ [][NextConcurrent]_vars

(***************************************************************************)
(* The environment runPulumiCmd hands to the endpoint, over bounded sets   *)
(* of home directories and Workspace variables.  An environment is a       *)
(* function from the names of its variables to their values.               *)
(***************************************************************************)
EmptyEnv == [k \in {} |-> ""]

\* { ...a, ...b }: the own properties of a, then those of b over them
ObjectSpreadFirstWins(a, b) ==
    [k \in DOMAIN a \cup DOMAIN b |-> IF k \in DOMAIN a THEN a[k] ELSE b[k]]
ObjectSpread(a, b) ==
    [k \in DOMAIN a \cup DOMAIN b |-> IF k \in DOMAIN b THEN b[k] ELSE a[k]]

\* let envs = {}; if (pulumiHome) envs["PULUMI_HOME"] = pulumiHome
PulumiHomeEnv(pulumiHome) ==
    IF TruthyString(pulumiHome)
    THEN [k \in {"PULUMI_HOME"} |-> Get(pulumiHome)]
    ELSE EmptyEnv

\* envs = { ...envs, ...additionalEnvs }
CommandEnvs(pulumiHome, additionalEnvs) ==
    ObjectSpread(PulumiHomeEnv(pulumiHome), additionalEnvs)

EnvNames == {"PULUMI_HOME", "PATH", "PULUMI_CONFIG_PASSPHRASE"}
EnvValues == {"/ws/.pulumi", "x"}
WorkspaceEnvs == UNION {[D -> EnvValues] : D \in SUBSET EnvNames}
PulumiHomes == {Undefined, Some(""), Some("/home/.pulumi")}

InitEnvs ==
    /\ arg \in [fn : {"envs"}, pulumiHome : PulumiHomes, additionalEnvs : WorkspaceEnvs]
    /\ ret = Undefined
    /\ Idle

EnvsReturn ==
    /\ arg.fn = "envs"
    /\ IsUndefined(ret)
    /\ ret' = Some(CommandEnvs(arg.pulumiHome, arg.additionalEnvs))
    /\ UNCHANGED <<arg, protocolVars>>

SpecEnvs == InitEnvs /\ [][EnvsReturn]_vars

(***************************************************************************)
(* The test language runtime (deploytest/languageruntime.go).  Run dials   *)
(* the monitor, starts the program in a goroutine of its own and blocks on *)
(* the channel the goroutine sends the program's error to.  An error is a  *)
(* sequence of length at most one: << >> is nil, <<m>> has the message m.  *)
(***************************************************************************)
MonitorAddresses == {"127.0.0.1:4000", "127.0.0.1:4001", ""}
DialErrors == {"grpc: no target", "context deadline exceeded"}
\* what the caller-supplied program does: it returns nil, returns an error
\* with a message (an empty one included), or panics
ProgramOutcomes == {"nil", "error: boom", "error: ", "panic"}

CouldNotConnect(e) == "could not connect to resource monitor" \o ": " \o e

\* p.program(info, monitor) returns
ProgramError(outcome) ==
    CASE outcome = "nil" -> << >>
      [] outcome = "error: boom" -> <<"boom">>
      [] outcome = "error: " -> <<"">>

\* if progerr := <-done; progerr != nil { return progerr.Error(), nil }; return "", nil
RunResultAsError(progerr) ==
    IF progerr # << >> THEN [result |-> "", err |-> progerr]
    ELSE [result |-> "", err |-> << >>]
RunResult(progerr) ==
    IF progerr # << >> THEN [result |-> progerr[1], err |-> << >>]
    ELSE [result |-> "", err |-> << >>]

\* Run(info) is called
RunCalled(address, secrets, outcome) ==
    /\ lang.pc = "idle"
    /\ lang' = [NoRun EXCEPT !.pc = "dial", !.address = address,
                             !.secrets = secrets, !.program = outcome]
    /\ UNCHANGED <<config, arg, ret, active, program, stacks, calls>>

\* grpc.Dial returns: on an error Run returns it wrapped; otherwise Run makes
\* the client and the channel, starts the goroutine and blocks on the channel
DialDone(outcome) ==
    /\ lang.pc = "dial"
    /\ lang' = IF outcome = "ok"
               THEN [lang EXCEPT !.dial = "ok", !.pc = "receive", !.go = "started"]
               ELSE [lang EXCEPT !.dial = outcome, !.pc = "returned", !.result = "",
                                 !.err = <<CouldNotConnect(outcome)>>]
    /\ UNCHANGED <<config, arg, ret, active, program, stacks, calls>>

\* the goroutine calls p.program
ProgramStart ==
    /\ lang.go = "started"
    /\ lang' = [lang EXCEPT !.go = "running", !.runs = @ + 1]
    /\ UNCHANGED <<config, arg, ret, active, program, stacks, calls>>

\* p.program returns and the goroutine blocks sending on done, or it panics
ProgramFinish ==
    /\ lang.go = "running"
    /\ lang' = IF lang.program = "panic"
               THEN [lang EXCEPT !.go = "panicked", !.pc = "crashed"]
               ELSE [lang EXCEPT !.go = "sending",
                                 !.progerr = ProgramError(lang.program)]
    /\ UNCHANGED <<config, arg, ret, active, program, stacks, calls>>

\* the send and the receive on the unbuffered channel meet, and Run returns
Receive ==
    /\ lang.pc = "receive"
    /\ lang.go = "sending"
    /\ LET r == RunResult(lang.progerr) IN
       lang' = [lang EXCEPT !.go = "exited", !.pc = "returned",
                            !.result = r.result, !.err = r.err]
    /\ UNCHANGED <<config, arg, ret, active, program, stacks, calls>>

NextRun ==
    \/ \E a \in MonitorAddresses, e \in BOOLEAN, o \in ProgramOutcomes : RunCalled(a, e, o)
    \/ \E o \in Outcomes(DialErrors) : DialDone(o)
    \/ ProgramStart
    \/ ProgramFinish
    \/ Receive

SpecRun == Init /\ [][NextRun]_vars

(***************************************************************************)
(*                              PROPERTIES                                 *)
(***************************************************************************)
Returned == ~IsUndefined(ret) /\ ~Get(ret).threw

\* C1: outputs() reconciliation is exact.  For every plaintext map P and
\* masked map M the result has exactly the key set of P, and for every key k
\* of P the result's value is P[k] and its secret flag is true iff M[k] is
\* the string "[secret]" (a key missing from M gives secret = false, keys
\* only in M are dropped).
OutputsExact ==
    (Returned /\ arg.fn = "outputs") =>
        LET P == arg.plaintextStdout.obj
            M == arg.maskedStdout.obj
            R == Get(ret).outputs
        IN /\ DOMAIN R = DOMAIN P
           /\ \A k \in DOMAIN P :
                /\ R[k].value = P[k]
                /\ R[k].secret <=> (k \in DOMAIN M /\ M[k] = Str("[secret]"))

\* What holds in place of C1: the same statement for every key of P other
\* than "__proto__", which the result never holds.
OutputsExactButProto ==
    (Returned /\ arg.fn = "outputs") =>
        LET P == arg.plaintextStdout.obj
            M == arg.maskedStdout.obj
            R == Get(ret).outputs
        IN /\ DOMAIN R = DOMAIN P \ {"__proto__"}
           /\ \A k \in DOMAIN R :
                /\ R[k].value = P[k]
                /\ R[k].secret <=> (k \in DOMAIN M /\ M[k] = Str("[secret]"))

\* The flags the option table gives a supplied option.
FlagOfString(x, flag) == IF IsUndefined(x) THEN << >> ELSE <<flag, Get(x)>>
FlagOfBoolean(x, flag) ==
    IF ~IsUndefined(x) /\ Get(x) = TRUE THEN <<flag>> ELSE << >>
FlagsOfList(x, flag) ==
    IF IsUndefined(x) THEN << >>
    ELSE [i \in 1..(2 * Len(Get(x))) |->
            IF i % 2 = 1 THEN flag ELSE Get(x)[i \div 2]]
Decimal(n) == CASE n = 0 -> "0" [] n = 1 -> "1" [] n = 12 -> "12" [] n = 13 -> "13"
FlagOfNumber(x, flag) ==
    IF IsUndefined(x) THEN << >> ELSE <<flag, Decimal(Get(x))>>

BaseArgs(op) ==
    CASE op = "up" -> <<"up", "--yes", "--skip-preview">>
      [] op = "preview" -> <<"preview">>
      [] op = "refresh" -> <<"refresh", "--yes", "--skip-preview">>
      [] op = "destroy" -> <<"destroy", "--yes", "--skip-preview">>

\* the options block by the table: message, expectNoChanges, replace, target,
\* targetDependents, parallel, each only for the operations it applies to
TableFlags(op, o) ==
    FlagOfString(o.message, "--message")
    \o (IF op \in {"up", "preview", "refresh"}
        THEN FlagOfBoolean(o.expectNoChanges, "--expect-no-changes") ELSE << >>)
    \o (IF op \in {"up", "preview"}
        THEN FlagsOfList(o.replace, "--replace") ELSE << >>)
    \o FlagsOfList(o.target, "--target")
    \o (IF op \in {"up", "preview", "destroy"}
        THEN FlagOfBoolean(o.targetDependents, "--target-dependents") ELSE << >>)
    \o FlagOfNumber(o.parallel, "--parallel")

\* the same, a scalar option counting as supplied only when it is truthy
TruthyFlags(op, o) ==
    TableFlags(op, [o EXCEPT
        !.message = IF o.message = Some("") THEN Undefined ELSE @,
        !.parallel = IF o.parallel = Some(0) THEN Undefined ELSE @])

KindArgs(op) ==
    IF op \in {"up", "preview"} THEN <<"--exec-kind", "auto.local">> ELSE << >>

\* C6: option-to-flag translation is order-preserving and omission-correct.
\* The argument list handed to the endpoint is the operation's base list,
\* then the flags of the supplied options in the order message,
\* expectNoChanges, replace, target, targetDependents, parallel, one
\* --replace/--target per list element in input order, and no flag for an
\* option that was not supplied.
ArgsTranslateSuppliedOptions ==
    (Returned /\ arg.fn \in LifecycleOps) =>
        Get(ret).args =
            BaseArgs(arg.fn)
            \o (IF IsUndefined(arg.opts) THEN << >>
                ELSE TableFlags(arg.fn, Get(arg.opts)))
            \o KindArgs(arg.fn) \o arg.additionalArgs

\* What holds in place of C6: the statement with a message of "" and a
\* parallel of 0 counted as not supplied.
ArgsTranslateTruthyOptions ==
    (Returned /\ arg.fn \in LifecycleOps) =>
        Get(ret).args =
            BaseArgs(arg.fn)
            \o (IF IsUndefined(arg.opts) THEN << >>
                ELSE TruthyFlags(arg.fn, Get(arg.opts)))
            \o KindArgs(arg.fn) \o arg.additionalArgs

\* C7: history() returns the update records in exactly the order the engine
\* reported them, and info() returns exactly the first of them when there is
\* one and undefined when there is none.
HistoryVerbatimInfoFirst ==
    (Returned /\ arg.fn \in {"history", "info"}) =>
        /\ arg.fn = "history" => Get(ret).summaries = arg.stdout
        /\ arg.fn = "info" =>
              IF Len(arg.stdout.items) = 0
              THEN IsUndefined(Get(ret).summary)
              ELSE Get(ret).summary = Some(arg.stdout.items[1])

\* C7 witness: info() has returned on a history of several distinct records.
InfoOfLongHistory ==
    /\ Returned
    /\ arg.fn = "info"
    /\ Len(arg.stdout.items) >= 2
    /\ arg.stdout.items[1] # arg.stdout.items[2]
    /\ ~IsUndefined(Get(ret).summary)

\* C2: upsert always issues createStack first; if it succeeds the Stack is
\* ready and selectStack is never issued; if it fails, for any reason,
\* exactly one selectStack for the same name follows and its outcome is
\* final: success makes the Stack ready with no error, failure rejects with
\* the select error, not the create error.
UpsertCreateThenSelect ==
    \A s \in StackIds : stacks[s].mode = "upsert" =>
        LET st == stacks[s]
            r == st.reqs
        IN /\ Len(r) \in {1, 2}
           /\ r[1] = [req |-> "create", name |-> st.name, outcome |-> r[1].outcome]
           /\ r[1].outcome = "pending" => Len(r) = 1 /\ st.ready = "pending"
           /\ r[1].outcome = "ok" =>
                Len(r) = 1 /\ st.ready = "resolved" /\ st.error = ""
           /\ r[1].outcome \in CreateErrors =>
                /\ Len(r) = 2
                /\ r[2].req = "select" /\ r[2].name = st.name
                /\ r[2].outcome = "pending" => st.ready = "pending"
                /\ r[2].outcome = "ok" => st.ready = "resolved" /\ st.error = ""
                /\ r[2].outcome \in SelectErrors =>
                     /\ st.ready = "rejected"
                     /\ st.error = r[2].outcome
                     /\ st.error # r[1].outcome

\* C2 witness: an upsert whose createStack failed on a permission error and
\* whose selectStack then made it ready.
UpsertReadyBySelect ==
    \E s \in StackIds :
        /\ stacks[s].mode = "upsert"
        /\ Len(stacks[s].reqs) = 2
        /\ stacks[s].reqs[1].outcome = "create: permission denied"
        /\ stacks[s].reqs[2].outcome = "ok"
        /\ stacks[s].ready = "resolved"

\* C3: create mode issues exactly one createStack and select mode exactly
\* one selectStack, with no fallback; a failure of that request fails the
\* construction with the same error; a factory hands back the Stack only
\* once it is ready; any other mode throws the unexpected-mode error without
\* a Workspace request.
SingleRequestNoFallback ==
    \A s \in StackIds : stacks[s].ready # "none" =>
        LET st == stacks[s]
            r == st.reqs
        IN /\ st.mode \in {"create", "select"} =>
                /\ Len(r) = 1
                /\ r[1].req = st.mode /\ r[1].name = st.name
                /\ r[1].outcome = "pending" => st.ready = "pending"
                /\ r[1].outcome = "ok" => st.ready = "resolved"
                /\ r[1].outcome \notin {"pending", "ok"} =>
                     st.ready = "rejected" /\ st.error = r[1].outcome
           /\ st.factory = "returned" => st.ready = "resolved"
           /\ st.factory = "rejected" => st.ready = "rejected"
           /\ st.mode \notin FactoryModes =>
                /\ st.ready = "threw"
                /\ r = << >>
                /\ st.error = "unexpected Stack creation mode: bogus"
                /\ st.factory = "none"

\* C3 witness: Stack.Create rejected with the error of its createStack, and a
\* constructor call with an unknown mode threw.
CreateRejectedAndModeThrew ==
    /\ \E s \in StackIds :
          /\ stacks[s].mode = "create"
          /\ stacks[s].factory = "rejected"
          /\ stacks[s].error = "create: stack already exists"
    /\ \E s \in StackIds : stacks[s].ready = "threw"

HasProgramOption(k) == ~IsUndefined(k.opts) /\ ~IsUndefined(Get(k.opts).program)
Started(k) == k.state # "idle"
NothingRun(k) ==
    /\ \A t \in Tasks : k.cmd[t] = IdleTask
    /\ k.osel = "idle"

\* C4: up or preview with a program option always fails with the
\* not-implemented error and never invokes the endpoint: no argument
\* serialization, no invocation, no post-command hook, no history query and
\* no outputs query.
InlineProgramFailsNYI ==
    \A c \in CallIds :
        (Started(calls[c]) /\ calls[c].op \in {"up", "preview"}
            /\ HasProgramOption(calls[c])) =>
            /\ calls[c].state # "resolved"
            /\ calls[c].state = "rejected" => calls[c].error = NYI
            /\ NothingRun(calls[c])

\* C4 as amended: such a call always fails, with the not-implemented error
\* when its selectStack succeeded and with the error of selectStack when
\* that failed, and never invokes the endpoint.
InlineProgramFailsUnrun ==
    \A c \in CallIds :
        (Started(calls[c]) /\ calls[c].op \in {"up", "preview"}
            /\ HasProgramOption(calls[c])) =>
            /\ calls[c].state # "resolved"
            /\ calls[c].sel = "pending" <=> calls[c].state = "running"
            /\ calls[c].sel = "ok" =>
                 calls[c].state = "rejected" /\ calls[c].error = NYI
            /\ calls[c].sel = "err" =>
                 calls[c].state = "rejected" /\ calls[c].error \in SelectErrors
            /\ NothingRun(calls[c])

\* C4 witness: up with a program option has been rejected as not implemented
\* after its selectStack succeeded.
InlineProgramRejected ==
    \E c \in CallIds :
        /\ calls[c].op = "up"
        /\ HasProgramOption(calls[c])
        /\ calls[c].sel = "ok"
        /\ calls[c].error = NYI

EndsWithLocalKind(args, name) ==
    \E i \in 1..Len(args) :
        /\ SubSeq(args, i, Len(args)) =
              <<"--exec-kind", "auto.local">> \o WorkspaceAdditionalArgs(name)
        /\ \A j \in 1..Len(args) : args[j] = "--exec-kind" => j = i

\* C5: up or preview called without a program option, whatever the state of
\* the Workspace, does not fail with the not-yet-supported error and goes on
\* to invoke the endpoint with --exec-kind auto.local.
LocalKindWithoutProgramOption ==
    \A c \in CallIds :
        (Started(calls[c]) /\ calls[c].op \in {"up", "preview"}
            /\ ~HasProgramOption(calls[c])) =>
            /\ calls[c].error # NYI
            /\ calls[c].sel = "ok" => calls[c].cmd["main"].pc # "idle"
            /\ calls[c].cmd["main"].execs > 0 =>
                 EndsWithLocalKind(calls[c].cmd["main"].args,
                                   stacks[calls[c].stack].name)

\* C5 as amended: the same for a call without a program option on a
\* Workspace that has no program of its own; when the Workspace has one, the
\* call fails with the not-yet-supported error once its selectStack succeeded.
LocalKindWithoutAnyProgram ==
    \A c \in CallIds :
        (Started(calls[c]) /\ calls[c].op \in {"up", "preview"}
            /\ ~HasProgramOption(calls[c])) =>
            IF program
            THEN /\ calls[c].sel = "ok" =>
                      calls[c].state = "rejected" /\ calls[c].error = NYI
                 /\ NothingRun(calls[c])
            ELSE /\ calls[c].error # NYI
                 /\ calls[c].sel = "ok" => calls[c].cmd["main"].pc # "idle"
                 /\ calls[c].cmd["main"].execs > 0 =>
                      EndsWithLocalKind(calls[c].cmd["main"].args,
                                        stacks[calls[c].stack].name)

\* C5 witness: up without options, on a Workspace without a program, has
\* invoked the endpoint.
LocalUpInvoked ==
    \E c \in CallIds :
        /\ calls[c].op = "up"
        /\ IsUndefined(calls[c].opts)
        /\ ~program
        /\ calls[c].cmd["main"].pc = "exec"

\* selection precedes the command, every hook has completed when the result
\* resolves, and the queries after the command start only once the command
\* and its hook have completed
OrderedState ==
    \A c \in CallIds :
        LET k == calls[c] IN
        /\ (k.op \in LifecycleOps /\ k.cmd["main"].pc # "idle") => k.sel = "ok"
        /\ k.state = "resolved" =>
              \A t \in Tasks : k.cmd[t].pc \in {"idle", "ok"}
                               /\ k.cmd[t].hooks = k.cmd[t].execs
        /\ (k.op \in LifecycleOps
              /\ (k.osel # "idle" \/ \E t \in Tasks \ {"main"} : k.cmd[t].pc # "idle")) =>
              k.cmd["main"].pc = "ok" /\ k.cmd["main"].hooks = 1

\* the endpoint is invoked in the step that completes the argument
\* serialization, and the hook is called in the step that completes the
\* process, while the result is still unresolved
OrderedStep ==
    \A c \in CallIds, t \in Tasks :
        /\ calls'[c].cmd[t].execs > calls[c].cmd[t].execs =>
              /\ calls[c].cmd[t].pc = "serialize"
              /\ calls[c].op \in LifecycleOps => calls[c].sel = "ok"
        /\ calls'[c].cmd[t].hooks > calls[c].cmd[t].hooks =>
              /\ calls[c].cmd[t].pc = "exec"
              /\ calls'[c].state # "resolved"

\* C8: within one lifecycle operation the steps are strictly ordered: stack
\* selection, then argument serialization, then the endpoint invocation; the
\* post-command hook after the process and before the result resolves; for
\* up, the history query and the outputs queries start only after the main
\* command and its hook have completed.
StepsOrdered == []OrderedState /\ [][OrderedStep]_vars

\* C8 witness: in one up, the history command and both outputs commands are
\* running at the same time.
HistoryAndOutputsInFlight ==
    \E c \in CallIds :
        /\ calls[c].op = "up"
        /\ calls[c].cmd["hist"].pc = "exec"
        /\ calls[c].cmd["masked"].pc = "exec"
        /\ calls[c].cmd["plain"].pc = "exec"

\* C9: every call of up, preview, refresh or destroy either fails or resolves
\* with a complete result, whose summary is an update record and, for up,
\* whose outputs map is present.
ResultComplete ==
    \A c \in CallIds :
        (calls[c].op \in LifecycleOps /\ calls[c].state = "resolved") =>
            /\ ~IsUndefined(calls[c].result.summary)
            /\ calls[c].op = "up" => ~IsUndefined(calls[c].result.outputs)

\* C10: with operations serialized on the Workspace, at every endpoint
\* invocation of a public operation the Workspace's active stack is the name
\* of the Stack that issued it.
InvokedOnOwnStack ==
    \A c \in CallIds, t \in Tasks :
        calls[c].cmd[t].execs > 0 =>
            calls[c].cmd[t].at = stacks[calls[c].stack].name

\* C11: every config request made through a Stack is forwarded under that
\* Stack's own name: it leaves the config stored under every other name as it
\* was, a read returns what is stored under the own name, and a getConfig (a
\* getAllConfig) that follows a setConfig (a setAllConfig) through the same
\* Stack returns the value (the values) just written.
ConfigReadOf(r, store, name) ==
    CASE r.op = "getConfig" ->
            \A k \in ConfigKeys :
               r.result[k] = IF k \in r.keys THEN store[name][k] ELSE Absent
      [] r.op \in {"getAllConfig", "refreshConfig"} -> r.result = store[name]
      [] OTHER -> r.result = NoMap
ConfigRoundTrip(w, r) ==
    /\ (w.op = "setConfig" /\ r.op = "getConfig" /\ w.keys = r.keys)
          => \A k \in r.keys : r.result[k] = w.values[k]
    /\ (w.op \in {"setConfig", "setAllConfig"} /\ r.op = "getAllConfig")
          => \A k \in w.keys : r.result[k] = w.values[k]
ConfigStep ==
    config' # config =>
       LET r == config'.last
           name == stacks[r.stack].name
       IN /\ r.name = name
          /\ \A n \in Names \ {name} : config'.store[n] = config.store[n]
          /\ ConfigReadOf(r, config.store, name)
          /\ config.last.stack = r.stack => ConfigRoundTrip(config.last, r)
ConfigScopedRoundTrip == [][ConfigStep]_vars

\* a read through the second Stack returns the value written under its name
\* while the other name holds another value for the key
ConfigReadBackBesideOther ==
    /\ config.last.op = "getConfig"
    /\ config.last.stack = 2
    /\ \E k \in config.last.keys :
          /\ config.last.result[k] = "v"
          /\ \E n \in Names \ {stacks[2].name} : config.store[n][k] = "w"

\* C12: every supplied scalar option produces its flag whatever its value.
\* For up, preview, refresh and destroy, a supplied parallel of n (0
\* included) puts --parallel n into the argument list and a supplied message
\* m ("" included) puts --message m into it; an option that is undefined
\* puts nothing.
HasFlagValue(args, flag, value) ==
    \E i \in 1..(Len(args) - 1) : args[i] = flag /\ args[i + 1] = value
HasFlag(args, flag) == \E i \in 1..Len(args) : args[i] = flag
SuppliedScalarsProduceFlags ==
    (Returned /\ arg.fn \in LifecycleOps /\ ~IsUndefined(arg.opts)) =>
        LET o == Get(arg.opts)
            args == Get(ret).args
        IN /\ IF IsUndefined(o.parallel) THEN ~HasFlag(args, "--parallel")
              ELSE HasFlagValue(args, "--parallel", Decimal(Get(o.parallel)))
           /\ IF IsUndefined(o.message) THEN ~HasFlag(args, "--message")
              ELSE HasFlagValue(args, "--message", Get(o.message))

\* C13: all public operations wait on readiness.  Whenever an operation has
\* been called on a Stack (it issues its first Workspace request in the call
\* itself), the create/select request of that Stack's construction has
\* completed, and it has completed successfully.
OperationsAwaitReadiness ==
    \A c \in CallIds :
       calls[c].state # "idle" => stacks[calls[c].stack].ready = "resolved"

\* C14: nothing serializes operations on the shared Workspace.  The select
\* at the start of a lifecycle operation makes its stack the active one
\* whatever else is in flight, it is never held back while another operation
\* is between its own select and its endpoint invocation, and an endpoint
\* invocation runs against the stack that is active at that moment, which
\* nothing ties to the invoking Stack's name.
BetweenSelectAndInvocation(k) ==
    k.sel = "ok" /\ k.cmd["main"].pc \in {"envs", "serialize"}
SelectNeverHeldBack ==
    \A c \in CallIds, d \in CallIds :
       (c # d /\ BetweenSelectAndInvocation(calls[c]) /\ calls[d].sel = "pending")
          => ENABLED SelectDone(d, "ok")
AmbientStackStep ==
    \A c \in CallIds :
       /\ (calls[c].sel = "pending" /\ calls'[c].sel = "ok")
             => active' = stacks[calls[c].stack].name
       /\ \A t \in Tasks :
             calls'[c].cmd[t].execs > calls[c].cmd[t].execs
                => calls'[c].cmd[t].at = active /\ active' = active
OperationsNotSerialized == []SelectNeverHeldBack /\ [][AmbientStackStep]_vars

\* select A, select B, execute A: the lifecycle command of one operation is
\* running against the stack another operation in flight has selected
ExecutedAgainstOtherStack ==
    \E c \in CallIds, d \in CallIds :
       LET k == calls[c]
           other == calls[d]
       IN /\ c # d
          /\ k.op \in LifecycleOps /\ other.op \in LifecycleOps
          /\ k.state = "running" /\ other.state = "running"
          /\ k.stack # other.stack
          /\ stacks[k.stack].name # stacks[other.stack].name
          /\ other.sel = "ok"
          /\ k.cmd["main"].pc = "exec"
          /\ k.cmd["main"].at = stacks[other.stack].name

\* C15: when the lifecycle command of up, preview, refresh or destroy fails
\* at the endpoint, the operation fails with the command's error, the
\* endpoint has been invoked that once, and neither the history command nor
\* the outputs query (its selectStack, its two commands) has been started.
MainFailedAtEndpoint(k) ==
    /\ k.op \in LifecycleOps
    /\ k.cmd["main"].pc = "err"
    /\ k.cmd["main"].execs = 1
    /\ k.cmd["main"].hooks = 0
FailedCommandEndsOperation ==
    \A c \in CallIds :
       MainFailedAtEndpoint(calls[c]) =>
          /\ calls[c].state = "rejected"
          /\ calls[c].error = CommandError
          /\ calls[c].osel = "idle"
          /\ \A t \in Tasks \ {"main"} : calls[c].cmd[t] = IdleTask
          /\ calls[c].result = NoResult

\* the command of an up has failed at the endpoint
UpCommandFailed ==
    \E c \in CallIds : calls[c].op = "up" /\ MainFailedAtEndpoint(calls[c])

\* C16: the argument list up or preview hands to the endpoint for its
\* lifecycle command holds --exec-kind exactly once, with the value
\* auto.local, after every option flag and directly before the Workspace's
\* arguments; auto.inline is in no argument list; and the argument lists of
\* refresh, destroy, history and the two outputs commands hold no --exec-kind.
OptionFlagNames ==
    {"--message", "--expect-no-changes", "--replace", "--target",
     "--target-dependents", "--parallel"}
ExecKindOnlyLocal ==
    (Returned /\ arg.fn \in LifecycleOps) =>
        LET args == Get(ret).args
            n == Len(args)
            w == Len(arg.additionalArgs)
        IN /\ ~HasFlag(args, "auto.inline")
           /\ arg.fn \in {"up", "preview"} =>
                 /\ Cardinality({i \in 1..n : args[i] = "--exec-kind"}) = 1
                 /\ n >= w + 2
                 /\ args[n - w - 1] = "--exec-kind"
                 /\ args[n - w] = "auto.local"
                 /\ SubSeq(args, n - w + 1, n) = arg.additionalArgs
                 /\ \A i \in 1..n : args[i] \in OptionFlagNames => i < n - w - 1
           /\ arg.fn \in {"refresh", "destroy"} => ~HasFlag(args, "--exec-kind")
           /\ \A query \in {HistoryArgs, MaskedOutputArgs, PlaintextOutputArgs} :
                 ~HasFlag(EndpointArgs(query, arg.additionalArgs), "--exec-kind")

\* a preview with list-valued and scalar options, on a Workspace that
\* contributes arguments, has built its argument list
PreviewWithOptionsBuilt ==
    /\ Returned
    /\ arg.fn = "preview"
    /\ ~IsUndefined(arg.opts)
    /\ Get(arg.opts).target = Some(<<"urn:a", "urn:b">>)
    /\ Get(arg.opts).parallel = Some(12)
    /\ arg.additionalArgs # << >>

\* C17: the environment of an endpoint invocation is PULUMI_HOME, there
\* when the Workspace has a home directory, overlaid with the Workspace's
\* variables.  Every Workspace variable is passed with its own value,
\* PULUMI_HOME included when the Workspace's variables hold it; otherwise
\* PULUMI_HOME is the home directory; nothing else is in the environment.
HasHome(pulumiHome) == ~IsUndefined(pulumiHome) /\ Get(pulumiHome) # ""
EnvHomeOverlaidByWorkspace ==
    (arg.fn = "envs" /\ ~IsUndefined(ret)) =>
        LET envs == Get(ret)
            ws == arg.additionalEnvs
        IN /\ DOMAIN envs = DOMAIN ws \cup
                 (IF HasHome(arg.pulumiHome) THEN {"PULUMI_HOME"} ELSE {})
           /\ \A k \in DOMAIN ws : envs[k] = ws[k]
           /\ ("PULUMI_HOME" \in DOMAIN envs /\ "PULUMI_HOME" \notin DOMAIN ws)
                 => envs["PULUMI_HOME"] = Get(arg.pulumiHome)

\* a collision: the Workspace has a home directory and its variables hold
\* another PULUMI_HOME, beside a further variable, and the environment is built
EnvHomeCollision ==
    /\ arg.fn = "envs"
    /\ ~IsUndefined(ret)
    /\ arg.pulumiHome = Some("/home/.pulumi")
    /\ DOMAIN arg.additionalEnvs = {"PULUMI_HOME", "PATH"}
    /\ arg.additionalEnvs["PULUMI_HOME"] = "/ws/.pulumi"
    /\ Get(ret)["PULUMI_HOME"] = "/ws/.pulumi"

\* C18: postCommandCallback is called once after each endpoint invocation
\* that completed, with the Stack's own name, and not after one that
\* failed.  When an up has resolved, its four commands (lifecycle, history,
\* masked and plaintext outputs) have each been invoked once and their four
\* hooks have completed; when a preview, refresh or destroy has resolved,
\* its two commands (lifecycle, history) and their two hooks have, and no
\* outputs command was run.
TaskDone(x) == x.pc = "ok" /\ x.execs = 1 /\ x.hooks = 1
HookState ==
    \A c \in CallIds :
       LET k == calls[c] IN
       /\ \A t \in Tasks :
             LET x == k.cmd[t] IN
             /\ x.hooks <= x.execs /\ x.execs <= 1
             /\ x.pc \in {"idle", "envs", "serialize", "exec"} => x.hooks = 0
             /\ x.pc \in {"hook", "ok"} => x.hooks = 1
             /\ x.hooks = 1 => x.hookFor = stacks[k.stack].name
       /\ (k.state = "resolved" /\ k.op = "up") =>
             \A t \in Tasks : TaskDone(k.cmd[t])
       /\ (k.state = "resolved" /\ k.op \in LifecycleOps \ {"up"}) =>
             /\ TaskDone(k.cmd["main"]) /\ TaskDone(k.cmd["hist"])
             /\ k.cmd["masked"] = IdleTask /\ k.cmd["plain"] = IdleTask
HookStep ==
    \A c \in CallIds, t \in Tasks :
       LET x == calls[c].cmd[t]
           y == calls'[c].cmd[t]
       IN /\ y.hooks # x.hooks =>
                x.pc = "exec" /\ y.pc = "hook" /\ y.hooks = x.hooks + 1
          /\ (x.pc = "exec" /\ y.pc = "hook") => y.hooks = x.hooks + 1
          /\ (x.pc = "exec" /\ y.pc = "err") => y.hooks = x.hooks
HookOncePerCompletedCommand == []HookState /\ [][HookStep]_vars

\* an up has resolved
UpResolved ==
    \E c \in CallIds : calls[c].op = "up" /\ calls[c].state = "resolved"

\* C19: Run tells a setup failure from a program failure.  When the dial
\* fails, Run returns the wrapped could-not-connect error and the program is
\* never started.  Otherwise the program is started once, Run returns only
\* after it has finished, and Run returns no error: the program's message
\* when it failed, the empty string when it succeeded.
RunSetupVersusProgram ==
    /\ lang.runs <= 1
    /\ lang.dial \in DialErrors =>
          /\ lang.pc = "returned"
          /\ lang.err = <<CouldNotConnect(lang.dial)>>
          /\ lang.result = ""
          /\ lang.runs = 0 /\ lang.go = "none"
    /\ (lang.pc = "returned" /\ lang.dial = "ok") =>
          /\ lang.runs = 1 /\ lang.go = "exited"
          /\ lang.err = << >>
          /\ lang.result = CASE lang.program = "nil" -> ""
                             [] lang.program = "error: boom" -> "boom"
                             [] lang.program = "error: " -> ""
    /\ lang.go \in {"started", "running", "sending"} => lang.pc = "receive"

\* Run has returned the message of a program that failed
RunReturnedProgramFailure ==
    /\ lang.pc = "returned"
    /\ lang.program = "error: boom"
    /\ lang.result = "boom"
    /\ lang.err = << >>
====
